---- MODULE Spec2Model ----
(***************************************************************************)
(* TaskPulse reminder bot (src/taskpulse_bot.py).                          *)
(*                                                                         *)
(* The store is the two sqlite tables `users` and `tasks`; the operations  *)
(* are the chat commands, the button handler and the periodic job          *)
(* send_reminders.  send_reminders is a coroutine: it reads the store,     *)
(* then for each user awaits the delivery of one message and writes the    *)
(* reminder bookkeeping.  Other handlers and other invocations of the job  *)
(* run while a delivery is awaited, so one invocation is three kinds of    *)
(* step: the read (select), one delivery with its write (dispatch) per     *)
(* user, and the return.                                                   *)
(*                                                                         *)
(* Instants are whole seconds since 00:00:00 UTC of day 0.  Strings that   *)
(* the code parses (schedules, time-of-day slots) are sequences of         *)
(* one-character strings, and split/join/int are computed on them.         *)
(* The column created_at is written once and never read; the column text   *)
(* is read only to be quoted in a message.  They are left out of the rows. *)
(***************************************************************************)
EXTENDS Integers, Sequences, FiniteSets, TLC

VARIABLES
    now,        \* the wall clock, datetime.now(pytz.UTC)
    users,      \* table users: user_id -> row
    tasks,      \* table tasks: sequence of rows, the index is the AUTOINCREMENT id
    ticks,      \* the invocations of send_reminders: position and local variables
    reply,      \* observation: the last message a handler sent back to its user
    history     \* observation: per task, the reminders delivered and whether it was cleared

vars == <<now, users, tasks, ticks, reply, history>>

\* reply and history are not read by any step of the program.  They record
\* what the program has sent, and only the specifications whose properties
\* speak of it keep them; the others leave them as they start.
obs == <<reply, history>>
Unobserved == UNCHANGED obs

----------------------------------------------------------------------------
(* Bounds of the model *)

MaxTasks == 2
MaxTicks == 1
MaxDelivered == 4

UserIds == {1, 2}
TickIds == 1..MaxTicks

----------------------------------------------------------------------------
(* Program constants *)

ReminderCutoff == 3
DefaultMaxReminders == 3
DelayHours == 2
MinMaxReminders == 1
MaxMaxReminders == 5
HoursPerDay == 24
MinutesPerHour == 60
SecondsPerMinute == 60
None == -1

SecondsPerHour == MinutesPerHour * SecondsPerMinute
SecondsPerDay == HoursPerDay * SecondsPerHour
Null == << >>

At(d, h, m, s) == d * SecondsPerDay + h * SecondsPerHour + m * SecondsPerMinute + s

\* The instants at which the model lets something happen: half a minute
\* before the default schedule's first slot, and that slot's own instant.
Instants == {At(1, 9, 59, 30), At(1, 10, 0, 0)}

----------------------------------------------------------------------------
(* Strings *)

Digits == {"0", "1", "2", "3", "4", "5", "6", "7", "8", "9"}

DigitVal(c) ==
    CASE c = "0" -> 0 [] c = "1" -> 1 [] c = "2" -> 2 [] c = "3" -> 3 [] c = "4" -> 4
      [] c = "5" -> 5 [] c = "6" -> 6 [] c = "7" -> 7 [] c = "8" -> 8 [] c = "9" -> 9

\* str.split(sep): the pieces between the separators, empty pieces kept.
RECURSIVE split(_, _)
split(s, sep) ==
    IF \A i \in 1..Len(s) : s[i] # sep
    THEN <<s>>
    ELSE LET i == CHOOSE j \in 1..Len(s) : s[j] = sep /\ \A l \in 1..(j - 1) : s[l] # sep
         IN  <<SubSeq(s, 1, i - 1)>> \o split(SubSeq(s, i + 1, Len(s)), sep)

\* sep.join(parts)
RECURSIVE join(_, _)
join(parts, sep) ==
    IF Len(parts) = 0 THEN << >>
    ELSE IF Len(parts) = 1 THEN parts[1]
    ELSE parts[1] \o <<sep>> \o join(Tail(parts), sep)

\* int(s) raises ValueError unless s is a run of decimal digits (the model's
\* alphabet has no sign, blank or underscore).
int_raises(s) == Len(s) = 0 \/ \E i \in 1..Len(s) : s[i] \notin Digits

RECURSIVE int(_)
int(s) == IF Len(s) = 0 THEN 0 ELSE 10 * int(SubSeq(s, 1, Len(s) - 1)) + DigitVal(s[Len(s)])

DefaultSchedule ==
    <<"1","0",":","0","0", ",", "1","4",":","0","0", ",", "1","8",":","0","0">>

DefaultScheduleList ==
    << <<"1","0",":","0","0">>, <<"1","4",":","0","0">>, <<"1","8",":","0","0">> >>

\* The argument lists of /schedule that the model tries: none, and
\*   /schedule 00:00 24:00,x1:00,10:00:00,,9:5,10:00
\* whose slots are a past one, an hour out of range, a field that is no number,
\* three fields, an empty slot, a slot int() reads as 09:05, and 10:00.
ScheduleArgs ==
    { << >>,
      << <<"0","0",":","0","0">>,
         <<"2","4",":","0","0", ",", "x","1",":","0","0", ",",
           "1","0",":","0","0",":","0","0", ",", ",", "9",":","5", ",",
           "1","0",":","0","0">> >> }

----------------------------------------------------------------------------
(* Time *)

\* datetime.isoformat() of an instant: date, hour, minute, second.
isoformat(t) ==
    <<t \div SecondsPerDay, (t % SecondsPerDay) \div SecondsPerHour,
      (t % SecondsPerHour) \div SecondsPerMinute, t % SecondsPerMinute>>

\* The instant an isoformat() string denotes.
fromisoformat(iso) ==
    iso[1] * SecondsPerDay + iso[2] * SecondsPerHour + iso[3] * SecondsPerMinute + iso[4]

\* get_tz_time(time_str, "UTC") called at instant t: the instant of today at
\* HH:MM:00, or a raised ValueError (wrong number of fields, a field that is
\* no integer, an hour or minute that datetime.replace rejects).
get_tz_time(time_str, t) ==
    LET parts == split(time_str, ":")
    IN  IF Len(parts) # 2 \/ int_raises(parts[1]) \/ int_raises(parts[2])
        THEN [raised |-> TRUE, value |-> 0]
        ELSE LET hour == int(parts[1])
                 minute == int(parts[2])
             IN  IF hour >= HoursPerDay \/ minute >= MinutesPerHour
                 THEN [raised |-> TRUE, value |-> 0]
                 ELSE [raised |-> FALSE,
                       value |-> (t \div SecondsPerDay) * SecondsPerDay
                                   + hour * SecondsPerHour + minute * SecondsPerMinute]

----------------------------------------------------------------------------
(* Store *)

UserRow == [schedule |-> DefaultSchedule,
            max_reminders |-> DefaultMaxReminders,
            stop_on_response |-> TRUE]

\* INSERT OR IGNORE INTO users (user_id) VALUES (?)
add_user_if_missing(us, user_id) ==
    IF user_id \in DOMAIN us THEN us
    ELSE [u \in DOMAIN us \cup {user_id} |-> IF u = user_id THEN UserRow ELSE us[u]]

\* INSERT INTO tasks (user_id, text, created_at): the other columns take their defaults.
add_task(ts, user_id) ==
    Append(ts, [user_id |-> user_id, status |-> "active",
                last_reminded |-> Null, reminder_count |-> 0])

\* As update_task_status, with the WHERE id = ? clauses lost.
update_task_status_every_row(ts, task_id, status, new_reminder_count, new_last_reminded) ==
    [i \in 1..Len(ts) |->
        [ts[i] EXCEPT
            !.reminder_count =
                IF new_reminder_count # None THEN new_reminder_count ELSE @,
            !.last_reminded =
                IF new_reminder_count # None THEN new_last_reminded ELSE @,
            !.status = status]]

update_task_status(ts, task_id, status, new_reminder_count, new_last_reminded) ==
    [i \in 1..Len(ts) |->
        IF i # task_id THEN ts[i]
        ELSE [ts[i] EXCEPT
                !.reminder_count =
                    IF new_reminder_count # None THEN new_reminder_count ELSE @,
                !.last_reminded =
                    IF new_reminder_count # None THEN new_last_reminded ELSE @,
                !.status = status]]

\* UPDATE tasks SET status = 'cleared' WHERE user_id = ?
clear_rows(ts, user_id) ==
    [i \in 1..Len(ts) |->
        IF ts[i].user_id = user_id THEN [ts[i] EXCEPT !.status = "cleared"] ELSE ts[i]]

\* UPDATE users SET schedule = ? WHERE user_id = ?
set_schedule(us, user_id, times_str) ==
    [u \in DOMAIN us |-> IF u = user_id THEN [us[u] EXCEPT !.schedule = times_str] ELSE us[u]]

\* As row_matches, with the test of the status lost.
row_matches_any_status(row, user_id) ==
    row.user_id = user_id /\ row.reminder_count < ReminderCutoff

\* As row_matches, with reminder_count <= 3.
row_matches_le(row, user_id) ==
    row.user_id = user_id /\ row.status = "active" /\ row.reminder_count <= ReminderCutoff

\* SELECT id, text, reminder_count FROM tasks
\*   WHERE user_id = ? AND status = 'active' AND reminder_count < 3   (rowid order)
row_matches(row, user_id) ==
    row.user_id = user_id /\ row.status = "active" /\ row.reminder_count < ReminderCutoff

select_eligible(ts, user_id) ==
    LET F[i \in 0..Len(ts)] ==
            IF i = 0 THEN << >>
            ELSE IF row_matches(ts[i], user_id)
                 THEN Append(F[i - 1], [id |-> i, count |-> ts[i].reminder_count])
                 ELSE F[i - 1]
    IN  F[Len(ts)]

----------------------------------------------------------------------------
(* send_reminders: the read *)

schedule_of(schedule_str) ==
    IF Len(schedule_str) > 0 THEN split(schedule_str, ",") ELSE DefaultScheduleList

\* As not_yet, with >= for >.
not_yet_ge(remind_time, t) == remind_time >= t

\* if remind_time > now: continue
not_yet(remind_time, t) == remind_time > t

\* As slot_rows, with the rows of tasks whose last_reminded is later than t held back.
slot_rows_gated(timestr, ts, user_id, t) ==
    LET r == get_tz_time(timestr, t)
        rows == select_eligible(ts, user_id)
        Free(row) == \/ ts[row.id].last_reminded = Null
                     \/ fromisoformat(ts[row.id].last_reminded) <= t
    IN  IF r.raised THEN << >>
        ELSE IF not_yet(r.value, t) THEN << >>
        ELSE SelectSeq(rows, Free)

\* One pass of `for timestr in schedule` for one user: the rows appended to
\* users_to_remind[user_id], one copy of the query's result per due slot.
slot_rows(timestr, ts, user_id, t) ==
    LET r == get_tz_time(timestr, t)
    IN  IF r.raised THEN << >>
        ELSE IF not_yet(r.value, t) THEN << >>
        ELSE select_eligible(ts, user_id)

\* As user_rows, with the try around the whole loop: the first slot that
\* raises ends the user's loop.
user_rows_abort(schedule, ts, user_id, t) ==
    LET F[i \in 0..Len(schedule)] ==
            IF i = 0 THEN << >>
            ELSE IF \E j \in 1..i : get_tz_time(schedule[j], t).raised
                 THEN F[i - 1]
                 ELSE F[i - 1] \o slot_rows(schedule[i], ts, user_id, t)
    IN  F[Len(schedule)]

user_rows(schedule, ts, user_id, t) ==
    LET F[i \in 0..Len(schedule)] ==
            IF i = 0 THEN << >>
            ELSE F[i - 1] \o slot_rows(schedule[i], ts, user_id, t)
    IN  F[Len(schedule)]

\* users_to_remind after the loop over the users table (rowid order), as the
\* sequence of its items in insertion order.
MaxUserId == CHOOSE m \in UserIds : \A u \in UserIds : u <= m

\* As select_reminders, with one item per due slot instead of one per user.
select_reminders_per_slot(us, ts, t) ==
    LET PerSlot(u) ==
            LET schedule == schedule_of(us[u].schedule)
                G[i \in 0..Len(schedule)] ==
                    IF i = 0 THEN << >>
                    ELSE LET rows == slot_rows(schedule[i], ts, u, t)
                         IN  IF Len(rows) > 0
                             THEN Append(G[i - 1], [user_id |-> u, tasks |-> rows])
                             ELSE G[i - 1]
            IN  G[Len(schedule)]
        F[u \in 0..MaxUserId] ==
            IF u = 0 THEN << >>
            ELSE IF u \notin DOMAIN us THEN F[u - 1]
            ELSE F[u - 1] \o PerSlot(u)
    IN  F[MaxUserId]

select_reminders(us, ts, t) ==
    LET F[u \in 0..MaxUserId] ==
            IF u = 0 THEN << >>
            ELSE IF u \notin DOMAIN us THEN F[u - 1]
            ELSE LET rows == user_rows(schedule_of(us[u].schedule), ts, u, t)
                 IN  IF Len(rows) > 0
                     THEN Append(F[u - 1], [user_id |-> u, tasks |-> rows])
                     ELSE F[u - 1]
    IN  F[MaxUserId]

----------------------------------------------------------------------------
(* send_reminders: the invocation *)

IdleTick == [pc |-> "idle", now |-> 0, users_to_remind |-> << >>, idx |-> 0,
             log |-> << >>]

\* The coroutine runs to its first await: now is read, the store is read,
\* users_to_remind is built.  log lists the deliveries this invocation has
\* attempted (the messages handed to the transport).
send_reminders_select(k) ==
    /\ ticks[k].pc = "idle"
    /\ LET utr == select_reminders(users, tasks, now)
       IN  ticks' = [ticks EXCEPT ![k] =
                        [pc |-> IF Len(utr) = 0 THEN "done" ELSE "dispatch",
                         now |-> now, users_to_remind |-> utr, idx |-> 1,
                         log |-> << >>]]
    /\ UNCHANGED <<now, users, tasks>>

\* As first_task, with the last row picked.
last_task(rows) == rows[Len(rows)]

\* task_id, task_text, count = tasks[0]
first_task(rows) == rows[1]

\* As next_idx, with a failed delivery tried again.
next_idx_retry(idx, ok) == IF ok THEN idx + 1 ELSE idx

\* The position after one iteration of `for user_id, tasks in users_to_remind.items()`.
next_idx(idx, ok) == idx + 1

\* As mark_reminded, with the count written back as it was read.
mark_reminded_same_count(ts, picked, t) ==
    update_task_status(ts, picked.id, "active", picked.count, isoformat(t))

\* update_task_status(task_id, 'active', count + 1, now.isoformat())
mark_reminded(ts, picked, t) ==
    update_task_status(ts, picked.id, "active", picked.count + 1, isoformat(t))

\* One iteration of the dispatch loop: the awaited send_message returns (ok)
\* or raises (~ok); on return the reminder is recorded.
send_reminders_dispatch(k, ok) ==
    /\ ticks[k].pc = "dispatch"
    /\ LET tk == ticks[k]
           item == tk.users_to_remind[tk.idx]
           picked == first_task(item.tasks)
           n == next_idx(tk.idx, ok)
       IN  /\ tasks' = IF ok THEN mark_reminded(tasks, picked, tk.now) ELSE tasks
           /\ ticks' = [ticks EXCEPT ![k] =
                 [tk EXCEPT
                    !.log = Append(@, [user_id |-> item.user_id, task_id |-> picked.id,
                                       ok |-> ok]),
                    !.idx = n,
                    !.pc = IF n > Len(tk.users_to_remind) THEN "done" ELSE "dispatch"]]
    /\ UNCHANGED <<now, users>>

send_reminders_return(k) ==
    /\ ticks[k].pc = "done"
    /\ ticks' = [ticks EXCEPT ![k] = IdleTick]
    /\ UNCHANGED <<now, users, tasks>>

----------------------------------------------------------------------------
(* Handlers *)

\* No handler has replied yet.
NoReply == [to |-> 0, kind |-> "none"]

ButtonActions == {"complete", "skip", "delay", "stopforever"}

\* As apply_button, with Completed pressed on a completed task taking it
\* back to active.
apply_button_toggle(ts, action, task_id, t) ==
    CASE action = "complete" ->
            IF task_id \in 1..Len(ts) /\ ts[task_id].status = "completed"
            THEN update_task_status(ts, task_id, "active", None, Null)
            ELSE update_task_status(ts, task_id, "completed", None, Null)
      [] action = "skip"        -> update_task_status(ts, task_id, "skipped", None, Null)
      [] action = "delay"       -> update_task_status(ts, task_id, "active", 0,
                                        isoformat(t + DelayHours * SecondsPerHour))
      [] action = "stopforever" -> update_task_status(ts, task_id, "stopped", None, Null)
      [] OTHER                  -> ts

\* The effect of one callback on the tasks table.
apply_button(ts, action, task_id, t) ==
    CASE action = "complete"    -> update_task_status(ts, task_id, "completed", None, Null)
      [] action = "skip"        -> update_task_status(ts, task_id, "skipped", None, Null)
      [] action = "delay"       -> update_task_status(ts, task_id, "active", 0,
                                        isoformat(t + DelayHours * SecondsPerHour))
      [] action = "stopforever" -> update_task_status(ts, task_id, "stopped", None, Null)
      [] OTHER                  -> ts

\* A button under a delivered reminder is pressed.  Callback data comes only
\* from the keyboards send_reminders has sent, and a task has been sent one
\* exactly when its last_reminded is set (only a delivery or a later delay
\* writes it, and nothing sets it back to NULL).
button_handler(action, task_id) ==
    /\ task_id \in 1..Len(tasks)
    /\ tasks[task_id].last_reminded # Null
    /\ tasks' = apply_button(tasks, action, task_id, now)
    /\ UNCHANGED <<now, users, ticks>>

start(user_id) ==
    /\ users' = add_user_if_missing(users, user_id)
    /\ UNCHANGED <<now, tasks, ticks>>

\* /add with at least one word (without, the handler only replies with the usage).
add_task_command(user_id) ==
    /\ Len(tasks) < MaxTasks
    /\ tasks' = add_task(tasks, user_id)
    /\ UNCHANGED <<now, users, ticks>>

schedule_command(user_id, args) ==
    /\ users' = IF Len(args) = 0 \/ user_id \notin DOMAIN users
                THEN users
                ELSE set_schedule(users, user_id, join(args, ","))
    /\ UNCHANGED <<now, tasks, ticks>>

clear_tasks(user_id) ==
    /\ tasks' = clear_rows(tasks, user_id)
    /\ UNCHANGED <<now, users, ticks>>

\* SELECT schedule, max_reminders, stop_on_response FROM users WHERE user_id = ?
\* and the defaults when there is no row.
get_user_prefs(us, user_id) ==
    IF user_id \in DOMAIN us
    THEN [schedule |-> schedule_of(us[user_id].schedule),
          max_reminders |-> us[user_id].max_reminders,
          stop_on_response |-> us[user_id].stop_on_response]
    ELSE [schedule |-> DefaultScheduleList,
          max_reminders |-> DefaultMaxReminders,
          stop_on_response |-> TRUE]

\* SELECT id, ... FROM tasks WHERE user_id = ? AND status = 'active'
get_active_tasks(ts, user_id) ==
    {i \in 1..Len(ts) : ts[i].user_id = user_id /\ ts[i].status = "active"}

\* str.isdigit(): every character is a digit and there is at least one.  The
\* superscript two is a digit for isdigit() and no number for int().
SuperscriptTwo == "sup2"

isdigit(s) == Len(s) > 0 /\ \A i \in 1..Len(s) : s[i] \in Digits \cup {SuperscriptTwo}

\* The argument lists of /maxreminders that are tried: none, 0, 1, 5, 6, 03,
\* a word, a superscript two.
MaxRemindersArgs ==
    { << >>, << <<"0">> >>, << <<"1">> >>, << <<"5">> >>, << <<"6">> >>,
      << <<"0", "3">> >>, << <<"x">> >>, << <<SuperscriptTwo>> >> }

\* As in_range, with 6 let through.
in_range_to_six(max_rem) == ~(max_rem < MinMaxReminders \/ max_rem > MaxMaxReminders + 1)

\* not (max_rem < 1 or max_rem > 5)
in_range(max_rem) == ~(max_rem < MinMaxReminders \/ max_rem > MaxMaxReminders)

\* What /maxreminders does with its arguments: the usage message, an uncaught
\* ValueError from int(), the range message, or the UPDATE and its message.
maxreminders_outcome(args) ==
    IF Len(args) = 0 \/ ~isdigit(args[1]) THEN "usage"
    ELSE IF int_raises(args[1]) THEN "raised"
    ELSE IF ~in_range(int(args[1])) THEN "range"
    ELSE "maxreminders_set"

\* UPDATE users SET max_reminders = ? WHERE user_id = ?
set_max_reminders(us, user_id, max_rem) ==
    [u \in DOMAIN us |->
        IF u = user_id THEN [us[u] EXCEPT !.max_reminders = max_rem] ELSE us[u]]

\* The users table after /maxreminders.
maxreminders_users(us, user_id, args) ==
    IF maxreminders_outcome(args) = "maxreminders_set"
    THEN set_max_reminders(us, user_id, int(args[1]))
    ELSE us

maxreminders_command(user_id, args) ==
    /\ users' = maxreminders_users(users, user_id, args)
    /\ UNCHANGED <<now, tasks, ticks>>

\* str.lower() on the words that are tried.
lower(w) == CASE w = "ON" -> "on" [] w = "Off" -> "off" [] OTHER -> w

StopOnResponseArgs == { << >>, <<"on">>, <<"off">>, <<"ON">>, <<"maybe">> }

stoponresponse_outcome(args) ==
    IF Len(args) = 0 \/ lower(args[1]) \notin {"on", "off"} THEN "usage"
    ELSE "stoponresponse_set"

\* UPDATE users SET stop_on_response = ? WHERE user_id = ?
set_stop_on_response(us, user_id, flag) ==
    [u \in DOMAIN us |->
        IF u = user_id THEN [us[u] EXCEPT !.stop_on_response = flag] ELSE us[u]]

stoponresponse_command(user_id, args) ==
    /\ users' = IF stoponresponse_outcome(args) = "stoponresponse_set"
                THEN set_stop_on_response(users, user_id, lower(args[1]) = "on")
                ELSE users
    /\ UNCHANGED <<now, tasks, ticks>>

\* /list reads and replies.
list_tasks(user_id) == UNCHANGED <<now, users, tasks, ticks>>

\* The message each branch of button_handler puts in place of the reminder.
button_reply(action) ==
    CASE action = "complete"    -> "completed"
      [] action = "skip"        -> "skipped"
      [] action = "delay"       -> "delayed"
      [] action = "stopforever" -> "stopped"
      [] OTHER                  -> "none"

\* Time passes.
ClockAdvance ==
    /\ \E t \in Instants : t > now /\ now' = t
    /\ UNCHANGED <<users, tasks, ticks>>

----------------------------------------------------------------------------
(* The program *)

Init ==
    /\ now = At(1, 9, 59, 30)
    /\ users = << >>
    /\ tasks = << >>
    /\ ticks = [k \in TickIds |-> IdleTick]
    /\ reply = NoReply
    /\ history = << >>

Next ==
    \/ \E k \in TickIds : send_reminders_select(k) /\ Unobserved
    \/ \E k \in TickIds, ok \in BOOLEAN : send_reminders_dispatch(k, ok) /\ Unobserved
    \/ \E k \in TickIds : send_reminders_return(k) /\ Unobserved
    \/ \E a \in ButtonActions, t \in 1..MaxTasks : button_handler(a, t) /\ Unobserved
    \/ \E u \in UserIds : start(u) /\ Unobserved
    \/ \E u \in UserIds : add_task_command(u) /\ Unobserved
    \/ \E u \in UserIds, args \in ScheduleArgs : schedule_command(u, args) /\ Unobserved
    \/ \E u \in UserIds : clear_tasks(u) /\ Unobserved
    \/ ClockAdvance /\ Unobserved

Spec == Init /\ [][Next]_vars

\* The schedules a users row can hold.
Schedules == {DefaultSchedule} \cup {join(args, ",") : args \in ScheduleArgs \ {<< >>}}

\* One registered user with one fresh task (another user may have registered,
\* without a task), then nothing but invocations of send_reminders one after
\* the other, every delivery succeeding, while time passes.
ScenarioInit ==
    /\ now \in Instants
    /\ \E u \in UserIds, sch \in Schedules : \E others \in SUBSET (UserIds \ {u}) :
          /\ users = [x \in {u} \cup others |->
                        IF x = u THEN [UserRow EXCEPT !.schedule = sch] ELSE UserRow]
          /\ tasks = add_task(<< >>, u)
    /\ ticks = [k \in TickIds |-> IdleTick]
    /\ reply = NoReply
    /\ history = << >>

ScenarioNext ==
    \/ \E k \in TickIds : /\ \A j \in TickIds : ticks[j].pc = "idle"
                          /\ send_reminders_select(k) /\ Unobserved
    \/ \E k \in TickIds : send_reminders_dispatch(k, TRUE) /\ Unobserved
    \/ \E k \in TickIds : send_reminders_return(k) /\ Unobserved
    \/ ClockAdvance /\ Unobserved

SpecScenario == ScenarioInit /\ [][ScenarioNext]_vars

\* As ScenarioInit, with one task or more of the user, all fresh.
fresh_tasks(n, user_id) ==
    [i \in 1..n |-> [user_id |-> user_id, status |-> "active",
                     last_reminded |-> Null, reminder_count |-> 0]]

LiveInit ==
    /\ now \in Instants
    /\ \E u \in UserIds, sch \in Schedules, n \in 1..MaxTasks :
          \E others \in SUBSET (UserIds \ {u}) :
             /\ users = [x \in {u} \cup others |->
                           IF x = u THEN [UserRow EXCEPT !.schedule = sch] ELSE UserRow]
             /\ tasks = fresh_tasks(n, u)
    /\ ticks = [k \in TickIds |-> IdleTick]
    /\ reply = NoReply
    /\ history = << >>

\* No invocation of the job is under way: the scheduler may start one.
NoneUnderWay == \A j \in TickIds : ticks[j].pc = "idle"

\* The scheduler starts an invocation, which runs to its first await.
TickStep ==
    \E k \in TickIds : /\ NoneUnderWay
                        /\ send_reminders_select(k) /\ Unobserved

\* A delivery of the invocation under way returns.
DeliverStep == \E k \in TickIds : send_reminders_dispatch(k, TRUE) /\ Unobserved

\* The invocation under way returns.
ReturnStep == \E k \in TickIds : send_reminders_return(k) /\ Unobserved

\* Weak fairness of TickStep, written out.  TickStep is enabled exactly when
\* NoneUnderWay holds (the read always leaves "idle"), so WF_vars(TickStep)
\* is []<>~NoneUnderWay \/ []<><<TickStep>>_vars.
TickFairness == []<>(~NoneUnderWay) \/ []<><<TickStep>>_vars

\* The scenario with the interval job firing for ever: the scheduler starts
\* send_reminders every minute, every delivery returns, and the invocation
\* runs to its end.
SpecLive ==
    /\ LiveInit /\ [][ScenarioNext]_vars
    /\ TickFairness /\ WF_vars(DeliverStep) /\ WF_vars(ReturnStep)

----------------------------------------------------------------------------
(* The chat handlers with their replies observed *)

Replied(user_id, kind) ==
    /\ reply' = [to |-> user_id, kind |-> kind]
    /\ UNCHANGED history

start_observed(user_id) == start(user_id) /\ Replied(user_id, "welcome")

\* /add with words, and /add alone (`if not context.args`: the usage, no row).
add_task_command_observed(user_id, has_args) ==
    /\ IF has_args THEN add_task_command(user_id)
                   ELSE UNCHANGED <<now, users, tasks, ticks>>
    /\ Replied(user_id, IF has_args THEN "added" ELSE "usage")

list_tasks_observed(user_id) ==
    /\ list_tasks(user_id)
    /\ Replied(user_id, IF get_active_tasks(tasks, user_id) = {} THEN "no_active" ELSE "list")

schedule_command_observed(user_id, args) ==
    /\ schedule_command(user_id, args)
    /\ Replied(user_id, IF Len(args) = 0 THEN "usage" ELSE "schedule_set")

maxreminders_command_observed(user_id, args) ==
    /\ maxreminders_command(user_id, args)
    /\ Replied(user_id, maxreminders_outcome(args))

stoponresponse_command_observed(user_id, args) ==
    /\ stoponresponse_command(user_id, args)
    /\ Replied(user_id, stoponresponse_outcome(args))

clear_tasks_observed(user_id) == clear_tasks(user_id) /\ Replied(user_id, "cleared")

\* A button is pressed by user_id.  The callback data names a task that has
\* been reminded, or, when the keyboard dates from before the database file
\* was replaced, an id the table does not hold: get_task_text gives "" and
\* the UPDATEs match no row.
button_handler_observed(user_id, action, task_id) ==
    /\ task_id \in 1..Len(tasks) => tasks[task_id].last_reminded # Null
    /\ tasks' = apply_button(tasks, action, task_id, now)
    /\ UNCHANGED <<now, users, ticks>>
    /\ Replied(user_id, button_reply(action))

\* Nothing yet, or user 1 has done /start and /add and has got the 10:00
\* reminder of the task; then the handlers, and no invocation of the job.
ChatInit ==
    /\ now = At(1, 10, 0, 0)
    /\ \/ users = << >> /\ tasks = << >>
       \/ /\ users = add_user_if_missing(<< >>, 1)
          /\ tasks = mark_reminded(add_task(<< >>, 1), [id |-> 1, count |-> 0], now)
    /\ ticks = [k \in TickIds |-> IdleTick]
    /\ reply = NoReply
    /\ history = << >>

ChatNext ==
    \/ \E u \in UserIds : start_observed(u)
    \/ \E u \in UserIds, has_args \in BOOLEAN : add_task_command_observed(u, has_args)
    \/ \E u \in UserIds : list_tasks_observed(u)
    \/ \E u \in UserIds, args \in ScheduleArgs : schedule_command_observed(u, args)
    \/ \E u \in UserIds, args \in MaxRemindersArgs : maxreminders_command_observed(u, args)
    \/ \E u \in UserIds, args \in StopOnResponseArgs : stoponresponse_command_observed(u, args)
    \/ \E u \in UserIds : clear_tasks_observed(u)
    \/ \E u \in UserIds, a \in ButtonActions, t \in 1..MaxTasks + 1 :
          button_handler_observed(u, a, t)

SpecChat == ChatInit /\ [][ChatNext]_vars

----------------------------------------------------------------------------
(* The job and the buttons with the deliveries counted *)

\* history[t] counts the reminders of task t that reached the user, today
\* (the model's one day) and since the task was created or last delayed, and
\* tells whether a /clear has reached the task.
NotDelivered == [today |-> 0, window |-> 0, cleared |-> FALSE]

\* The task the invocation k is about to send.
picked_id(k) == first_task(ticks[k].users_to_remind[ticks[k].idx].tasks).id

send_reminders_select_counted(k) == send_reminders_select(k) /\ Unobserved

send_reminders_dispatch_counted(k, ok) ==
    /\ send_reminders_dispatch(k, ok)
    /\ ok => history[picked_id(k)].today < MaxDelivered
    /\ history' = IF ok
                    THEN [history EXCEPT ![picked_id(k)] =
                            [@ EXCEPT !.today = @ + 1, !.window = @ + 1]]
                    ELSE history
    /\ UNCHANGED reply

send_reminders_return_counted(k) == send_reminders_return(k) /\ Unobserved

button_handler_counted(action, task_id) ==
    /\ button_handler(action, task_id)
    /\ history' = IF action = "delay"
                    THEN [history EXCEPT ![task_id].window = 0]
                    ELSE history
    /\ UNCHANGED reply

maxreminders_command_counted(user_id, args) ==
    maxreminders_command(user_id, args) /\ Unobserved

clear_tasks_counted(user_id) ==
    /\ clear_tasks(user_id)
    /\ history' = [t \in 1..Len(tasks) |->
                      IF tasks[t].user_id = user_id
                      THEN [history[t] EXCEPT !.cleared = TRUE]
                      ELSE history[t]]
    /\ UNCHANGED reply

\* User 1 has done /start and /add, and it is 10:00, the first slot of the
\* default schedule; n invocations of the job can be under way at once.
CountStart(n) ==
    /\ now = At(1, 10, 0, 0)
    /\ users = add_user_if_missing(<< >>, 1)
    /\ tasks = add_task(<< >>, 1)
    /\ ticks = [k \in 1..n |-> IdleTick]
    /\ reply = NoReply
    /\ history = <<NotDelivered>>

CountInit == CountStart(MaxTicks)

OverlapInit == CountStart(MaxTicks + 1)

CountNext ==
    \/ \E k \in DOMAIN ticks : send_reminders_select_counted(k)
    \/ \E k \in DOMAIN ticks, ok \in BOOLEAN : send_reminders_dispatch_counted(k, ok)
    \/ \E k \in DOMAIN ticks : send_reminders_return_counted(k)
    \/ \E a \in ButtonActions, t \in 1..MaxTasks : button_handler_counted(a, t)
    \/ \E args \in MaxRemindersArgs : maxreminders_command_counted(1, args)
    \/ clear_tasks_counted(1)

\* The invocations of the job one at a time up to MaxTicks, as in Spec.
SpecCount == CountInit /\ [][CountNext]_vars

\* One invocation more: an invocation can start while another awaits a delivery.
SpecOverlap == OverlapInit /\ [][CountNext]_vars

----------------------------------------------------------------------------
(* Vocabulary of the properties *)

\* The entry of users_to_remind for user u, as a list of rows (empty: no entry).
RowsOf(utr, u) ==
    IF \E i \in 1..Len(utr) : utr[i].user_id = u
    THEN utr[CHOOSE i \in 1..Len(utr) : utr[i].user_id = u].tasks
    ELSE << >>

\* The ids of the tasks an invocation has selected.
SelectedIds(utr) ==
    UNION {{utr[i].tasks[j].id : j \in 1..Len(utr[i].tasks)} : i \in 1..Len(utr)}

\* Steps of invocation k: its read, one attempted delivery, a delivery that
\* succeeded, one that failed.
SelectStep(k) == ticks[k].pc = "idle" /\ ticks'[k].pc # "idle"
DispatchStep(k) == ticks[k].pc = "dispatch" /\ Len(ticks'[k].log) = Len(ticks[k].log) + 1
Attempt(k) == ticks'[k].log[Len(ticks'[k].log)]
DeliveredStep(k) == DispatchStep(k) /\ Attempt(k).ok
FailedStep(k) == DispatchStep(k) /\ ~Attempt(k).ok

InProgress(k) == ticks[k].pc \in {"dispatch", "done"}

\* A slot string that denotes a time of day: digits, one colon, digits, the
\* hour below 24 and the minute below 60.  Every other slot is malformed.
ColonAt(s) == {p \in 1..Len(s) : s[p] = ":"}

DenotesTime(s) ==
    /\ Cardinality(ColonAt(s)) = 1
    /\ LET p == CHOOSE q \in ColonAt(s) : TRUE
       IN  /\ 1 < p /\ p < Len(s)
           /\ \A i \in 1..Len(s) : i # p => s[i] \in Digits
           /\ int(SubSeq(s, 1, p - 1)) < HoursPerDay
           /\ int(SubSeq(s, p + 1, Len(s))) < MinutesPerHour

Malformed(s) == ~DenotesTime(s)

\* Well-formed: HH:MM, two digits each.
WellFormed(s) == DenotesTime(s) /\ Len(s) = 5 /\ s[3] = ":"

\* Today's instant (the day of t) at the time of day s denotes.
TodayAt(s, t) ==
    LET p == CHOOSE q \in ColonAt(s) : TRUE
    IN  (t - (t % SecondsPerDay)) + int(SubSeq(s, 1, p - 1)) * SecondsPerHour
          + int(SubSeq(s, p + 1, Len(s))) * SecondsPerMinute

Due(s, t) == DenotesTime(s) /\ TodayAt(s, t) <= t

\* User u is registered and one of u's slots is due at t.
HasDueSlot(us, u, t) ==
    /\ u \in DOMAIN us
    /\ \E i \in 1..Len(schedule_of(us[u].schedule)) : Due(schedule_of(us[u].schedule)[i], t)

\* The tasks a read of (us, ts) at t has to select: active, below the cutoff,
\* of a registered user with a due slot.
Eligible(us, ts, t) ==
    {i \in 1..Len(ts) : /\ ts[i].status = "active"
                        /\ ts[i].reminder_count < ReminderCutoff
                        /\ HasDueSlot(us, ts[i].user_id, t)}

\* The first of u's eligible tasks in fetch order.
FirstEligible(us, ts, t, u) ==
    CHOOSE i \in Eligible(us, ts, t) :
        /\ ts[i].user_id = u
        /\ \A j \in Eligible(us, ts, t) : ts[j].user_id = u => i <= j

----------------------------------------------------------------------------
(* Properties of one invocation of send_reminders *)

\* C1: a task whose stored reminder_count is 3 or more when the invocation
\* reads the store is in no user's selection, whatever the schedules and
\* however many slots are due; and an invocation attempts deliveries only for
\* tasks of its selection, which it does not change after the read.
C1_CutoffNeverSelected ==
    /\ [][\A k \in TickIds :
            /\ SelectStep(k) =>
                 \A t \in 1..Len(tasks) :
                    tasks[t].reminder_count >= ReminderCutoff =>
                        t \notin SelectedIds(ticks'[k].users_to_remind)
            /\ DispatchStep(k) =>
                 /\ ticks'[k].users_to_remind = ticks[k].users_to_remind
                 /\ Attempt(k).task_id \in SelectedIds(ticks[k].users_to_remind)]_vars
    /\ [](\A k \in TickIds : \A i \in 1..Len(ticks[k].users_to_remind) :
            \A j \in 1..Len(ticks[k].users_to_remind[i].tasks) :
                ticks[k].users_to_remind[i].tasks[j].count < ReminderCutoff)

\* C1 witness: an invocation has delivered a reminder for one task of a user
\* with several due slots while another active task of that user stands at
\* the cutoff and is not in the selection.
C1_Witness ==
    \E k \in TickIds : \E e \in 1..Len(ticks[k].log) : \E t \in 1..Len(tasks) :
        /\ ticks[k].log[e].ok
        /\ tasks[t].user_id = ticks[k].log[e].user_id
        /\ tasks[t].status = "active"
        /\ tasks[t].reminder_count = ReminderCutoff
        /\ t \notin SelectedIds(ticks[k].users_to_remind)
        /\ Len(RowsOf(ticks[k].users_to_remind, tasks[t].user_id)) > 1

\* C2: one invocation attempts at most one delivery per user: no user appears
\* twice among the deliveries it has attempted, even when the user has several
\* eligible tasks and several due slots.
C2_OnePerUser ==
    \A k \in TickIds : \A i, j \in 1..Len(ticks[k].log) :
        i # j => ticks[k].log[i].user_id # ticks[k].log[j].user_id

\* C2 witness: an invocation is over, its selection for some user held two
\* different tasks, each listed for more than one due slot, and that user got
\* a reminder.
C2_Witness ==
    \E k \in TickIds : \E i \in 1..Len(ticks[k].users_to_remind) :
        LET item == ticks[k].users_to_remind[i]
        IN  /\ ticks[k].pc = "done"
            /\ Cardinality({item.tasks[j].id : j \in 1..Len(item.tasks)}) > 1
            /\ Len(item.tasks) > Cardinality({item.tasks[j].id : j \in 1..Len(item.tasks)})
            /\ \E e \in 1..Len(ticks[k].log) :
                  ticks[k].log[e].user_id = item.user_id /\ ticks[k].log[e].ok

\* C3: the read changes no task and records each selected task's stored
\* reminder_count; a successful delivery for task T then leaves T with that
\* count plus one and with last_reminded equal to the invocation's now, and
\* leaves every other task (of the same user or not) exactly as it was.
C3_DeliveryEffect ==
    [][\A k \in TickIds :
         /\ SelectStep(k) =>
              /\ tasks' = tasks
              /\ \A i \in 1..Len(ticks'[k].users_to_remind) :
                   \A j \in 1..Len(ticks'[k].users_to_remind[i].tasks) :
                      LET row == ticks'[k].users_to_remind[i].tasks[j]
                      IN  row.count = tasks[row.id].reminder_count
         /\ DeliveredStep(k) =>
              LET item == ticks[k].users_to_remind[ticks[k].idx]
                  T == Attempt(k).task_id
                  asRead == CHOOSE j \in 1..Len(item.tasks) : item.tasks[j].id = T
              IN  /\ Len(tasks') = Len(tasks)
                  /\ tasks'[T].reminder_count = item.tasks[asRead].count + 1
                  /\ tasks'[T].last_reminded # Null
                  /\ fromisoformat(tasks'[T].last_reminded) = ticks[k].now
                  /\ \A t \in 1..Len(tasks) : t # T => tasks'[t] = tasks[t]]_vars

\* C3 witness: a reminder was delivered for one task of a user whose selection
\* held a second task; the first now counts one reminder at the invocation's
\* now and the second is untouched.
C3_Witness ==
    \E k \in TickIds : \E e \in 1..Len(ticks[k].log) :
        LET T == ticks[k].log[e].task_id
            rows == RowsOf(ticks[k].users_to_remind, ticks[k].log[e].user_id)
        IN  /\ ticks[k].log[e].ok
            /\ tasks[T].reminder_count = 1
            /\ tasks[T].last_reminded = isoformat(ticks[k].now)
            /\ \E j \in 1..Len(rows) :
                  /\ rows[j].id # T
                  /\ tasks[rows[j].id].reminder_count = 0
                  /\ tasks[rows[j].id].last_reminded = Null
                  /\ tasks[rows[j].id].status = "active"

----------------------------------------------------------------------------
(* Properties of the button handler *)

\* C4 (as claimed): delay on any existing task sets reminder_count to 0 and
\* last_reminded to the instant of the action plus two hours, and the task
\* remains active: its status after the action is the active status it had
\* before.
C4_DelayKeepsActive ==
    [][\A t \in 1..Len(tasks) :
         button_handler("delay", t) =>
            /\ tasks'[t].reminder_count = 0
            /\ fromisoformat(tasks'[t].last_reminded) = now + DelayHours * SecondsPerHour
            /\ tasks'[t].status = "active"
            /\ tasks'[t].status = tasks[t].status]_vars

\* C5 (as claimed): complete, skip and stopforever set the status to completed,
\* skipped and stopped, and a task with one of these statuses is never active
\* again, whatever actions and invocations follow.
C5_ParkedNeverActive ==
    [][\A t \in 1..Len(tasks) :
         /\ button_handler("complete", t) => tasks'[t].status = "completed"
         /\ button_handler("skip", t) => tasks'[t].status = "skipped"
         /\ button_handler("stopforever", t) => tasks'[t].status = "stopped"
         /\ tasks[t].status \in {"completed", "skipped", "stopped"} =>
               tasks'[t].status # "active"]_vars

----------------------------------------------------------------------------
(* Properties of the selection *)

RowsIfDueAtOrBefore(us, ts, u, t) ==
    LET schedule == schedule_of(us[u].schedule)
        F[i \in 0..Len(schedule)] ==
            IF i = 0 THEN << >>
            ELSE F[i - 1] \o
                 (IF WellFormed(schedule[i])
                  THEN (IF TodayAt(schedule[i], t) <= t THEN select_eligible(ts, u) ELSE << >>)
                  ELSE slot_rows(schedule[i], ts, u, t))
    IN  F[Len(schedule)]

C9_FailureLeavesTask ==
    /\ [][\A k \in TickIds :
            FailedStep(k) =>
               LET e == Attempt(k)
               IN  /\ tasks' = tasks
                   /\ \A i \in 1..Len(ticks[k].log) : ticks[k].log[i].user_id # e.user_id
                   /\ ticks'[k].idx = ticks[k].idx + 1
                   /\ \A t \in Instants :
                        e.task_id \in Eligible(users, tasks, t) =>
                           e.task_id \in SelectedIds(select_reminders(users', tasks', t))]_vars
    /\ [](\A k \in TickIds :
            ticks[k].pc = "done" =>
               /\ Len(ticks[k].log) = Len(ticks[k].users_to_remind)
               /\ \A i \in 1..Len(ticks[k].log) :
                     ticks[k].log[i].user_id = ticks[k].users_to_remind[i].user_id)

\* C9 witness: an invocation is over; its delivery to the first user failed
\* and that user's task is as it was created and still eligible; its delivery
\* to the second user succeeded.
C9_Witness ==
    \E k \in TickIds :
        /\ ticks[k].pc = "done"
        /\ Len(ticks[k].log) = 2
        /\ ~ticks[k].log[1].ok
        /\ ticks[k].log[2].ok
        /\ LET T == ticks[k].log[1].task_id
           IN  /\ tasks[T].reminder_count = 0
               /\ tasks[T].last_reminded = Null
               /\ T \in Eligible(users, tasks, now)

\* The slots of a schedule that are not malformed.
WithoutMalformed(schedule) == SelectSeq(schedule, DenotesTime)

\* C10: a malformed slot counts as not due and stops nothing: for every
\* registered user the read selects what it would select were the malformed
\* slots absent from the schedule, and the users with a selection are listed
\* in the order of the users table.
C10_MalformedSlotSkipped ==
    [][\A k \in TickIds :
         SelectStep(k) =>
            LET utr == ticks'[k].users_to_remind
            IN  /\ \A u \in DOMAIN users :
                      RowsOf(utr, u) =
                         user_rows(WithoutMalformed(schedule_of(users[u].schedule)),
                                   tasks, u, now)
                /\ \A i \in 1..Len(utr) : utr[i].user_id \in DOMAIN users
                /\ \A i, j \in 1..Len(utr) : i < j => utr[i].user_id < utr[j].user_id]_vars

\* C10 witness: an invocation has selected tasks for two users; the first
\* one's schedule has a malformed slot followed by a due one, and the rows of
\* that later slot are in the selection.
C10_Witness ==
    \E k \in TickIds :
        /\ InProgress(k)
        /\ Len(ticks[k].users_to_remind) = 2
        /\ LET item == ticks[k].users_to_remind[1]
               schedule == schedule_of(users[item.user_id].schedule)
               due == {j \in 1..Len(schedule) : Due(schedule[j], ticks[k].now)}
           IN  /\ \E i, j \in 1..Len(schedule) :
                     i < j /\ Malformed(schedule[i]) /\ j \in due
               /\ Cardinality(due) > 1
               /\ Len(item.tasks) = Cardinality(due)

----------------------------------------------------------------------------
(* Properties of the handlers and their replies *)

\* C11 (as claimed): a button whose callback data names a task the table
\* does not hold is answered with a task-not-found outcome, not with one of
\* the success messages, and changes no task and no user.
C11_UnknownTaskReported ==
    [][\A u \in UserIds, a \in ButtonActions, t \in 1..MaxTasks + 1 :
         (t \notin 1..Len(tasks) /\ button_handler_observed(u, a, t)) =>
            /\ reply'.kind = "TaskNotFoundError"
            /\ tasks' = tasks
            /\ users' = users]_vars

\* C12: Completed pressed on a task leaves it completed with its
\* reminder_count and last_reminded as they were, pressed again it leaves
\* exactly that state, and the second press is answered like the first.
C12_CompleteIdempotent ==
    /\ [](\A t \in 1..Len(tasks) :
            LET once == apply_button(tasks, "complete", t, now)
                twice == apply_button(once, "complete", t, now)
            IN  /\ once[t].status = "completed"
                /\ once[t].reminder_count = tasks[t].reminder_count
                /\ once[t].last_reminded = tasks[t].last_reminded
                /\ twice = once)
    /\ [][\A u \in UserIds, t \in 1..Len(tasks) :
            (tasks[t].status = "completed" /\ button_handler_observed(u, "complete", t)) =>
                /\ tasks' = tasks
                /\ reply' = [to |-> u, kind |-> "completed"]]_vars

\* C12 witness: a reminded task is completed and the last thing that happened
\* is a press of Completed by the other user of the chat, after the owner's.
C12_Witness ==
    \E t \in 1..Len(tasks) :
        /\ tasks[t].status = "completed"
        /\ tasks[t].reminder_count = 1
        /\ tasks[t].last_reminded # Null
        /\ reply = [to |-> 2, kind |-> "completed"]

\* A step of one of user u's commands.
Interaction(u) ==
    \/ start_observed(u)
    \/ \E has_args \in BOOLEAN : add_task_command_observed(u, has_args)
    \/ list_tasks_observed(u)
    \/ \E args \in ScheduleArgs : schedule_command_observed(u, args)
    \/ \E args \in MaxRemindersArgs : maxreminders_command_observed(u, args)
    \/ \E args \in StopOnResponseArgs : stoponresponse_command_observed(u, args)
    \/ clear_tasks_observed(u)

\* C14 (as claimed): after any command of a user the users table has a row
\* for that user, with the default values if the command was the user's
\* first; rows are never deleted; so every owner of a task has a row, which
\* is what send_reminders enumerates.
C14_RecordOnFirstInteraction ==
    /\ [][/\ \A u \in UserIds :
              Interaction(u) =>
                 /\ u \in DOMAIN users'
                 /\ u \notin DOMAIN users => users'[u] = UserRow
          /\ \A u \in DOMAIN users : u \in DOMAIN users']_vars
    /\ [](\A t \in 1..Len(tasks) : tasks[t].user_id \in DOMAIN users)

\* The schedule a /schedule with these arguments sets, as get_user_prefs
\* returns a schedule: the list of its slots.
AsSet(args) == split(join(args, ","), ",")

\* C15 (as claimed): when /schedule, /maxreminders or /stoponresponse has
\* answered with its success message, get_user_prefs returns the value just
\* set, for a user with and without a users row, and a read of
\* send_reminders goes by the schedule just set.
C15_PreferenceRoundTrip ==
    [][\A u \in UserIds :
         /\ \A args \in ScheduleArgs :
               (schedule_command_observed(u, args) /\ reply'.kind = "schedule_set") =>
                  /\ get_user_prefs(users', u).schedule = AsSet(args)
                  /\ RowsOf(select_reminders(users', tasks', now'), u)
                        = user_rows(AsSet(args), tasks', u, now')
         /\ \A args \in MaxRemindersArgs :
               (maxreminders_command_observed(u, args) /\ reply'.kind = "maxreminders_set") =>
                  get_user_prefs(users', u).max_reminders = int(args[1])
         /\ \A args \in StopOnResponseArgs :
               (stoponresponse_command_observed(u, args)
                  /\ reply'.kind = "stoponresponse_set") =>
                  get_user_prefs(users', u).stop_on_response = (lower(args[1]) = "on")]_vars

\* The arguments are one decimal number between 1 and 5.
NumberInRange(args) ==
    /\ Len(args) > 0
    /\ ~int_raises(args[1])
    /\ int(args[1]) \in MinMaxReminders..MaxMaxReminders

\* C17: every stored max_reminders is an integer from 1 to 5; a new row has
\* 3; and in every state /maxreminders with anything but a number from 1 to
\* 5 changes no row and does not answer with the success message.
C17_MaxRemindersInRange ==
    /\ [](/\ \A u \in DOMAIN users :
               users[u].max_reminders \in MinMaxReminders..MaxMaxReminders
          /\ \A u \in UserIds, args \in MaxRemindersArgs :
               ~NumberInRange(args) =>
                  /\ maxreminders_users(users, u, args) = users
                  /\ maxreminders_outcome(args) # "maxreminders_set")
    /\ [][\A u \in DOMAIN users' :
            u \notin DOMAIN users => users'[u].max_reminders = DefaultMaxReminders]_vars

\* C17 witness: one user's max_reminders has been set to 5, the other's to 1,
\* and the last /maxreminders was turned down with the range message.
C17_Witness ==
    /\ \E u, v \in DOMAIN users :
          users[u].max_reminders = MaxMaxReminders /\ users[v].max_reminders = MinMaxReminders
    /\ reply.kind = "range"

----------------------------------------------------------------------------
(* Properties of the reminder count *)

\* C13 (as claimed): a reminder is never delivered for a task that has
\* already had, that day, as many reminders as its owner's max_reminders
\* allows at the time of the delivery.
C13_AtMostMaxRemindersADay ==
    [][\A k \in DOMAIN ticks :
         DeliveredStep(k) =>
            LET t == Attempt(k).task_id
            IN  history'[t].today <= get_user_prefs(users, tasks[t].user_id).max_reminders]_vars

\* C16 (as claimed): /clear of user u sets the status of every task of u to
\* cleared, whatever it was, removes no row and changes no other column and
\* no task of another user, so that u has no active task; and no read of
\* send_reminders that starts after the /clear selects a task it has reached.
C16_ClearedNeverSelected ==
    [][/\ \A u \in UserIds :
            clear_tasks_counted(u) =>
               /\ Len(tasks') = Len(tasks)
               /\ \A t \in 1..Len(tasks) :
                     IF tasks[t].user_id = u
                     THEN tasks'[t] = [tasks[t] EXCEPT !.status = "cleared"]
                     ELSE tasks'[t] = tasks[t]
               /\ get_active_tasks(tasks', u) = {}
       /\ \A k \in DOMAIN ticks :
            SelectStep(k) =>
               \A t \in SelectedIds(ticks'[k].users_to_remind) : ~history[t].cleared]_vars

\* C18 (as claimed): the write that follows a delivery changes only
\* reminder_count and last_reminded of the task: the status a button or
\* /clear has set since the invocation read the task is still there.
C18_MarkRemindedKeepsStatus ==
    [][\A k \in DOMAIN ticks :
         DeliveredStep(k) =>
            tasks'[Attempt(k).task_id].status = tasks[Attempt(k).task_id].status]_vars

\* C19 (as claimed): in every state the reminder_count of a task is the
\* number of reminders delivered for it since it was created or last delayed.
C19_CountIsDeliveries ==
    \A t \in 1..Len(tasks) : tasks[t].reminder_count = history[t].window

\* C20 (as claimed): in every step the reminder_count of a task stays, or
\* grows, or becomes 0 by a press of Delay on that task; it becomes 0 or
\* smaller in no other step.
C20_CountOnlyGrowsOrDelay ==
    [][\A t \in 1..Len(tasks) :
         \/ tasks'[t].reminder_count = tasks[t].reminder_count
         \/ tasks'[t].reminder_count > tasks[t].reminder_count /\ tasks'[t].reminder_count # 0
         \/ tasks'[t].reminder_count = 0 /\ button_handler_counted("delay", t)]_vars

----------------------------------------------------------------------------
(* Properties of what is selected and sent *)

\* C21: every task in the selection of a read was, in the store the read
\* saw, active and owned by a registered user with a slot due at the read's
\* now: no completed, skipped, stopped or cleared task and no task of a user
\* without a due slot is selected.
C21_SelectedOnlyActiveAndDue ==
    [][\A k \in TickIds :
         SelectStep(k) =>
            \A i \in 1..Len(ticks'[k].users_to_remind) :
               LET item == ticks'[k].users_to_remind[i]
               IN  \A j \in 1..Len(item.tasks) :
                      LET t == item.tasks[j].id
                      IN  /\ t \in 1..Len(tasks)
                          /\ tasks[t].status = "active"
                          /\ tasks[t].status \notin {"completed", "skipped", "stopped", "cleared"}
                          /\ tasks[t].user_id = item.user_id
                          /\ HasDueSlot(users, item.user_id, now)]_vars

\* C21 witness: a read has just selected a task of one user and left out the
\* other task, which is active and below the cutoff but whose owner, a
\* registered user, has no slot due at the read's now.
C21_Witness ==
    \E k \in TickIds :
        /\ ticks[k].pc = "dispatch"
        /\ ticks[k].log = << >>
        /\ Cardinality(SelectedIds(ticks[k].users_to_remind)) = 1
        /\ \E t \in 1..Len(tasks) :
              /\ t \notin SelectedIds(ticks[k].users_to_remind)
              /\ tasks[t].status = "active"
              /\ tasks[t].reminder_count < ReminderCutoff
              /\ tasks[t].user_id \in DOMAIN users
              /\ ~HasDueSlot(users, tasks[t].user_id, ticks[k].now)

\* C22: the rows a read keeps for a user begin with the first of the user's
\* eligible tasks in the order of the table, and the task a delivery is
\* attempted for is the first row of the user's entry: no task is sent while
\* a task of the same user with a smaller id was active and below the cutoff
\* at the read.
C22_FirstEligibleIsSent ==
    [][\A k \in TickIds :
         /\ SelectStep(k) =>
               \A i \in 1..Len(ticks'[k].users_to_remind) :
                  LET item == ticks'[k].users_to_remind[i]
                  IN  /\ item.tasks[1].id = FirstEligible(users, tasks, now, item.user_id)
                      /\ \A t \in 1..Len(tasks) :
                            (/\ tasks[t].user_id = item.user_id
                             /\ tasks[t].status = "active"
                             /\ tasks[t].reminder_count < ReminderCutoff) =>
                                item.tasks[1].id <= t
         /\ DispatchStep(k) =>
               LET item == ticks[k].users_to_remind[ticks[k].idx]
               IN  /\ Attempt(k).user_id = item.user_id
                   /\ Attempt(k).task_id = item.tasks[1].id]_vars

\* C22 witness: an invocation that selected both tasks of a user has sent
\* the first and has finished without an attempt for the second.
C22_Witness ==
    \E k \in TickIds :
        /\ ticks[k].pc = "done"
        /\ Len(ticks[k].users_to_remind) = 1
        /\ SelectedIds(ticks[k].users_to_remind) = {1, 2}
        /\ Len(ticks[k].log) = 1
        /\ ticks[k].log[1].task_id = 1
        /\ ticks[k].log[1].ok

\* C23: with invocations that overlap and buttons pressed in between, the
\* reminder_count of every task is an integer from 0 to 3 in every state, and
\* the write after a delivery never stores more than 3.
C23_CountWithinCutoff ==
    /\ [](\A t \in 1..Len(tasks) : tasks[t].reminder_count \in 0..ReminderCutoff)
    /\ [][\A k \in DOMAIN ticks :
            DeliveredStep(k) =>
               tasks'[Attempt(k).task_id].reminder_count \in 1..ReminderCutoff]_vars

\* C23 witness: a task stands at the cutoff after more deliveries than the
\* cutoff (invocations overlapped, or Delay was pressed in between), while
\* another invocation that read it earlier is still awaiting its delivery.
C23_Witness ==
    \E t \in 1..Len(tasks) :
        /\ tasks[t].reminder_count = ReminderCutoff
        /\ history[t].today > ReminderCutoff
        /\ \E k \in DOMAIN ticks :
              /\ ticks[k].pc = "dispatch"
              /\ t \in SelectedIds(ticks[k].users_to_remind)

\* C24: while the job keeps firing, every delivery succeeds and no user acts,
\* every task that is active and below the cutoff and whose owner is
\* registered with a slot due is eventually reminded up to reminder_count 3,
\* whatever other tasks the owner has; and a read finds nothing to send to a
\* user none of whose active tasks is below the cutoff.
C24_EveryEligibleTaskReachesCutoff ==
    /\ \A t \in 1..MaxTasks :
          (/\ t \in 1..Len(tasks)
           /\ tasks[t].status = "active"
           /\ tasks[t].reminder_count < ReminderCutoff
           /\ HasDueSlot(users, tasks[t].user_id, now))
          ~> (/\ t \in 1..Len(tasks)
              /\ tasks[t].reminder_count = ReminderCutoff
              /\ tasks[t].last_reminded # Null)
    /\ [][\A k \in TickIds :
            SelectStep(k) =>
               \A u \in DOMAIN users :
                  (\A t \in get_active_tasks(tasks, u) :
                      tasks[t].reminder_count >= ReminderCutoff) =>
                     RowsOf(ticks'[k].users_to_remind, u) = << >>]_vars

\* C24 witness: a user's two tasks have both been reminded up to the cutoff,
\* and a later read has found nothing to send.
C24_Witness ==
    /\ Len(tasks) > 1
    /\ \A t \in 1..Len(tasks) :
          /\ tasks[t].user_id = tasks[1].user_id
          /\ tasks[t].status = "active"
          /\ tasks[t].reminder_count = ReminderCutoff
          /\ tasks[t].last_reminded # Null
    /\ \E k \in TickIds :
          ticks[k].pc = "done" /\ ticks[k].users_to_remind = << >>

====
